---------------------------- MODULE Spec2Model ----------------------------
(***************************************************************************)
(* Model of pkg/codegen/template_helpers.go: the response-unmarshal case    *)
(* generator (genResponseUnmarshal) and the x-primary-response resolver.    *)
(*                                                                          *)
(* Go strings that take part in ordering or in generated conditions are     *)
(* modelled by their bytes (Bytes), so that sort.Strings is the bytewise    *)
(* comparison Go performs and strings.Contains is a substring search.       *)
(***************************************************************************)
EXTENDS Integers, Sequences, FiniteSets

VARIABLES
    typeDefinitions,      \* op.GetResponseTypeDefinitions(): static part of each definition
    typeDefinitionsErr,   \* whether op.GetResponseTypeDefinitions() returns an error
    generateGoSchemaErr,  \* whether GenerateGoSchema returns an error for the purged schema
    responses,            \* op.Spec.Responses: name -> [declared, hasValue, Content]
    directive,            \* op.Spec.Extensions["x-primary-response"]: "absent" or a raw JSON message
    oapiProperties,       \* the declared schema's properties, the object td.Schema.OAPISchema points to
    declaredProperties,   \* oapiProperties as first declared; never assigned after Init
    loopVarPerIteration,  \* Go >= 1.22 range semantics (TRUE) or one variable per loop (FALSE)
    pc,                   \* position of the SpecDispatch run
    handledCaseClauses,   \* map of genResponseUnmarshal, as left by its last run
    unhandledCaseClauses, \* map of genResponseUnmarshal, as left by its last run
    stores,               \* every map store of the last run: [handled, key, clause, name, contentType]
    emitted,              \* return value of the last genResponseUnmarshal run
    selected,             \* result of running the emitted switch on a response
    first,                \* function name -> result of its first call
    last,                 \* function name -> result of its latest call
    calls                 \* number of calls made

vars == << typeDefinitions, typeDefinitionsErr, generateGoSchemaErr, responses, directive, oapiProperties, declaredProperties,
           loopVarPerIteration, pc, handledCaseClauses, unhandledCaseClauses, stores,
           emitted, selected, first, last, calls >>

-----------------------------------------------------------------------------
(* Bounds of the model *)

MaxTypeDefs == 3
MaxPrimaryTypeDefs == 2
MaxProps == 3
MaxMeta == 2
MaxCalls == 3

-----------------------------------------------------------------------------
(* Strings as bytes *)

Bytes(s) ==
  CASE s = "" -> << >>
  [] s = "200" -> <<50, 48, 48>>
  [] s = "404" -> <<52, 48, 52>>
  [] s = "ok" -> <<111, 107>>
  [] s = "tests" -> <<116, 101, 115, 116, 115>>
  [] s = "data" -> <<100, 97, 116, 97>>
  [] s = "1XX" -> <<49, 88, 88>>
  [] s = "2XX" -> <<50, 88, 88>>
  [] s = "3XX" -> <<51, 88, 88>>
  [] s = "4XX" -> <<52, 88, 88>>
  [] s = "5XX" -> <<53, 88, 88>>
  [] s = "default" -> <<100, 101, 102, 97, 117, 108, 116>>
  [] s = "json" -> <<106, 115, 111, 110>>
  [] s = "yaml" -> <<121, 97, 109, 108>>
  [] s = "xml" -> <<120, 109, 108>>
  [] s = "application/json" -> <<97, 112, 112, 108, 105, 99, 97, 116, 105, 111, 110, 47, 106, 115, 111, 110>>
  [] s = "text/x-json" -> <<116, 101, 120, 116, 47, 120, 45, 106, 115, 111, 110>>
  [] s = "application/yaml" -> <<97, 112, 112, 108, 105, 99, 97, 116, 105, 111, 110, 47, 121, 97, 109, 108>>
  [] s = "application/x-yaml" -> <<97, 112, 112, 108, 105, 99, 97, 116, 105, 111, 110, 47, 120, 45, 121, 97, 109, 108>>
  [] s = "text/yaml" -> <<116, 101, 120, 116, 47, 121, 97, 109, 108>>
  [] s = "text/x-yaml" -> <<116, 101, 120, 116, 47, 120, 45, 121, 97, 109, 108>>
  [] s = "application/xml" -> <<97, 112, 112, 108, 105, 99, 97, 116, 105, 111, 110, 47, 120, 109, 108>>
  [] s = "text/xml" -> <<116, 101, 120, 116, 47, 120, 109, 108>>
  [] s = "application/octet-stream" -> <<97, 112, 112, 108, 105, 99, 97, 116, 105, 111, 110, 47, 111, 99, 116, 101, 116, 45, 115, 116, 114, 101, 97, 109>>
  [] s = "image/png" -> <<105, 109, 97, 103, 101, 47, 112, 110, 103>>
  [] s = "9" -> <<57>>
  [] s = "6" -> <<54>>
  [] s = "3" -> <<51>>
  [] s = "." -> <<46>>
  [] s = "case " -> <<99, 97, 115, 101, 32>>
  [] s = ":" -> <<58>>
  [] s = "rsp.StatusCode" -> <<114, 115, 112, 46, 83, 116, 97, 116, 117, 115, 67, 111, 100, 101>>
  [] s = " / 100 == " -> <<32, 47, 32, 49, 48, 48, 32, 61, 61, 32>>
  [] s = " == " -> <<32, 61, 61, 32>>
  [] s = "true" -> <<116, 114, 117, 101>>

\* Go's string comparison a < b: bytewise, a proper prefix is smaller.
RECURSIVE StringLess(_, _)
StringLess(a, b) ==
  IF b = << >> THEN FALSE
  ELSE IF a = << >> THEN TRUE
  ELSE IF Head(a) # Head(b) THEN Head(a) < Head(b)
  ELSE StringLess(Tail(a), Tail(b))

HasPrefix(s, p) == Len(p) <= Len(s) /\ SubSeq(s, 1, Len(p)) = p

\* strings.Contains(s, sub)
Contains(s, sub) ==
  \E i \in 0..(Len(s) - Len(sub)) : SubSeq(s, i + 1, i + Len(sub)) = sub

\* The value of a decimal integer literal of the generated code.
RECURSIVE Atoi(_)
Atoi(digits) ==
  IF digits = << >> THEN 0
  ELSE 10 * Atoi(SubSeq(digits, 1, Len(digits) - 1)) + (digits[Len(digits)] - 48)

-----------------------------------------------------------------------------
(* Constants of the package *)

prefixMostSpecific == "3"
prefixLessSpecific == "6"
prefixLeastSpecific == "9"

contentTypesJSON == <<"application/json", "text/x-json">>
contentTypesYAML == <<"application/yaml", "application/x-yaml", "text/yaml", "text/x-yaml">>
contentTypesXML == <<"application/xml", "text/xml">>

responseTypeSuffix == "Response"

-----------------------------------------------------------------------------
(* Pointers, and the outcome of a call: a return value or a panic *)

Nil == <<"nil">>
Ptr(v) == <<"ptr", v>>
Deref(ptr) == ptr[2]

NotCalled == <<"not called">>
Returned(v) == <<"returned", v>>
Panicked == <<"panic">>
Value(outcome) == outcome[2]

-----------------------------------------------------------------------------
(* Helpers of the package that template_helpers.go calls *)

StringInArray(str, array) == \E i \in 1..Len(array) : array[i] = str

\* The strings of set S in ascending order (sort.Strings).
RECURSIVE SortedBytes(_)
SortedBytes(S) ==
  IF S = {} THEN << >>
  ELSE LET m == CHOOSE x \in S : \A y \in S \ {x} : StringLess(x, y)
       IN  <<m>> \o SortedBytes(S \ {m})

SortedStringKeys(dict) == SortedBytes(DOMAIN dict)

RECURSIVE SortedNames(_)
SortedNames(S) ==
  IF S = {} THEN << >>
  ELSE LET m == CHOOSE x \in S : \A y \in S \ {x} : StringLess(Bytes(x), Bytes(y))
       IN  <<m>> \o SortedNames(S \ {m})

SortedContentKeys(content) == SortedNames(content)

-----------------------------------------------------------------------------
(* The operation model *)

\* GenerateGoSchema: the Go schema of an object schema with these properties.
\* OAPISchema stands for what the schema's pointer to the declared schema yields.
GenerateGoSchema(props) ==
  [TypeDecl |-> "struct", Properties |-> props,
   OAPISchema |-> [Properties |-> {props[i].JsonFieldName : i \in 1..Len(props)}]]

\* op.GetResponseTypeDefinitions(): each definition with the schema generated
\* from the declared schema as it is at the time of the call. Schema.OAPISchema
\* is a pointer to the declared schema: its Properties are read through
\* oapiProperties, never copied into the definition. The result is the pair
\* (definitions, err) of the Go function: no definitions when err is set.
GetResponseTypeDefinitions(tds, props, err) ==
  [value |-> IF err THEN << >>
             ELSE [i \in 1..Len(tds) |->
                     [ResponseName    |-> tds[i].ResponseName,
                      ContentTypeName |-> tds[i].ContentTypeName,
                      TypeName        |-> tds[i].TypeName,
                      JsonName        |-> "",
                      Schema          |-> GenerateGoSchema(props)]],
   err |-> err]

-----------------------------------------------------------------------------
(* genResponseUnmarshal *)

\* Return the statusCode comparison clause from the response name.
getConditionOfResponseName(statusCodeVar, responseName) ==
  IF responseName = "default" THEN Bytes("true")
  ELSE IF responseName \in {"1XX", "2XX", "3XX", "4XX", "5XX"}
       THEN Bytes(statusCodeVar) \o Bytes(" / 100 == ") \o SubSeq(Bytes(responseName), 1, 1)
       ELSE Bytes(statusCodeVar) \o Bytes(" == ") \o Bytes(responseName)

\* A case clause "case strings.Contains(rsp.Header.Get("Content-Type"), <contains>) && <cond>:"
\* followed by its action; contains = "" stands for a clause without the header test.
CaseClause(contains, cond, action) ==
  [contains |-> contains, cond |-> cond, action |-> action]

\* buildUnmarshalCase with the tier prefixes assigned the wrong way round: the
\* catch-all gets the most specific prefix.
buildUnmarshalCase_DefaultFirst(typeDefinition, caseAction, contentType) ==
  LET prefix == IF typeDefinition.ResponseName = "default" THEN prefixMostSpecific
                ELSE prefixLeastSpecific
      caseKey == Bytes(prefix) \o Bytes(".") \o Bytes(contentType)
                   \o Bytes(".") \o Bytes(typeDefinition.ResponseName)
      caseClauseKey == getConditionOfResponseName("rsp.StatusCode", typeDefinition.ResponseName)
  IN  [caseKey |-> caseKey, caseClause |-> CaseClause(contentType, caseClauseKey, caseAction)]

buildUnmarshalCase(typeDefinition, caseAction, contentType) ==
  LET caseKey == Bytes(prefixLeastSpecific) \o Bytes(".") \o Bytes(contentType)
                   \o Bytes(".") \o Bytes(typeDefinition.ResponseName)
      caseClauseKey == getConditionOfResponseName("rsp.StatusCode", typeDefinition.ResponseName)
  IN  [caseKey |-> caseKey, caseClause |-> CaseClause(contentType, caseClauseKey, caseAction)]

\* dict[key] = value of a Go map
MapStore(dict, key, value) ==
  [k \in (DOMAIN dict) \cup {key} |-> IF k = key THEN value ELSE dict[k]]

\* The two maps of genResponseUnmarshal and the record of the stores made.
EmptyMaps == [handled |-> << >>, unhandled |-> << >>, stores |-> << >>]

StoreHandled(st, key, clause, td, contentTypeName) ==
  [st EXCEPT !.handled = MapStore(st.handled, key, clause),
             !.stores = Append(st.stores,
                 [handled |-> TRUE, key |-> key, clause |-> clause,
                  ResponseName |-> td.ResponseName, ContentTypeName |-> contentTypeName])]

StoreUnhandled(st, key, clause, td, contentTypeName) ==
  [st EXCEPT !.unhandled = MapStore(st.unhandled, key, clause),
             !.stores = Append(st.stores,
                 [handled |-> FALSE, key |-> key, clause |-> clause,
                  ResponseName |-> td.ResponseName, ContentTypeName |-> contentTypeName])]

UnmarshalAction(codec, typeDefinition) ==
  [kind |-> "unmarshal", codec |-> codec, TypeDecl |-> typeDefinition.Schema.TypeDecl,
   TypeName |-> typeDefinition.TypeName]

\* The unhandled key and clause of a response name.
UnhandledKey(typeDefinition) ==
  Bytes(prefixLeastSpecific) \o Bytes("case ")
    \o getConditionOfResponseName("rsp.StatusCode", typeDefinition.ResponseName) \o Bytes(":")

UnhandledClause(typeDefinition, caseAction) ==
  CaseClause("", getConditionOfResponseName("rsp.StatusCode", typeDefinition.ResponseName), caseAction)

\* One iteration of the loop over sortedContentKeys.
HandledCase(st, typeDefinition, contentTypeName, codec) ==
  IF typeDefinition.ContentTypeName = contentTypeName
  THEN LET c == buildUnmarshalCase(typeDefinition, UnmarshalAction(codec, typeDefinition), codec)
       IN  StoreHandled(st, c.caseKey, c.caseClause, typeDefinition, contentTypeName)
  ELSE st

\* ContentTypeStep with the content-type classified before the interface{} skip.
ContentTypeStep_ClassifyFirst(st, typeDefinition, contentTypeName) ==
  IF StringInArray(contentTypeName, contentTypesJSON)
       THEN IF typeDefinition.TypeName = "interface{}" THEN st
            ELSE HandledCase(st, typeDefinition, contentTypeName, "json")
  ELSE IF StringInArray(contentTypeName, contentTypesYAML)
       THEN IF typeDefinition.TypeName = "interface{}" THEN st
            ELSE HandledCase(st, typeDefinition, contentTypeName, "yaml")
  ELSE IF StringInArray(contentTypeName, contentTypesXML)
       THEN IF typeDefinition.TypeName = "interface{}" THEN st
            ELSE HandledCase(st, typeDefinition, contentTypeName, "xml")
  ELSE StoreUnhandled(st, UnhandledKey(typeDefinition),
                      UnhandledClause(typeDefinition,
                          [kind |-> "unsupported", contentType |-> contentTypeName]),
                      typeDefinition, contentTypeName)

ContentTypeStep(st, typeDefinition, contentTypeName) ==
  IF typeDefinition.TypeName = "interface{}" THEN st
  ELSE IF StringInArray(contentTypeName, contentTypesJSON)
       THEN HandledCase(st, typeDefinition, contentTypeName, "json")
  ELSE IF StringInArray(contentTypeName, contentTypesYAML)
       THEN HandledCase(st, typeDefinition, contentTypeName, "yaml")
  ELSE IF StringInArray(contentTypeName, contentTypesXML)
       THEN HandledCase(st, typeDefinition, contentTypeName, "xml")
  ELSE StoreUnhandled(st, UnhandledKey(typeDefinition),
                      UnhandledClause(typeDefinition,
                          [kind |-> "unsupported", contentType |-> contentTypeName]),
                      typeDefinition, contentTypeName)

RECURSIVE ContentLoop(_, _, _, _)
ContentLoop(st, typeDefinition, sortedContentKeys, i) ==
  IF i > Len(sortedContentKeys) THEN st
  ELSE ContentLoop(ContentTypeStep(st, typeDefinition, sortedContentKeys[i]),
                   typeDefinition, sortedContentKeys, i + 1)

\* One iteration of the loop over typeDefinitions.
TypeDefinitionStep(st, typeDefinition, resps) ==
  LET responseRef == resps[typeDefinition.ResponseName] IN
  IF ~responseRef.declared THEN st
  ELSE IF ~responseRef.hasValue THEN st
  ELSE IF responseRef.Content = {}
       THEN StoreUnhandled(st, UnhandledKey(typeDefinition),
                           UnhandledClause(typeDefinition, [kind |-> "break"]),
                           typeDefinition, "")
  ELSE ContentLoop(st, typeDefinition, SortedContentKeys(responseRef.Content), 1)

RECURSIVE TypeDefinitionLoop(_, _, _, _)
TypeDefinitionLoop(st, tds, resps, i) ==
  IF i > Len(tds) THEN st
  ELSE TypeDefinitionLoop(TypeDefinitionStep(st, tds[i], resps), tds, resps, i + 1)

\* The clauses of a map in the order of its sorted keys.
ClausesInKeyOrder(dict) ==
  LET keys == SortedStringKeys(dict) IN [i \in 1..Len(keys) |-> dict[keys[i]]]

\* The switch statement: handled clauses, then unhandled ones; << >> is "".
BuildSwitch(st) == ClausesInKeyOrder(st.handled) \o ClausesInKeyOrder(st.unhandled)

\* The return of genResponseUnmarshal once the maps are filled.
SwitchOf(st) ==
  [maps |-> st, text |-> BuildSwitch(st), outcome |-> Returned(BuildSwitch(st))]

\* genResponseUnmarshal(op): the maps it filled and the text it returns, or the
\* panic on the error of op.GetResponseTypeDefinitions(), the maps still empty.
\* defs is the pair (typeDefinitions, err) that call returns.
genResponseUnmarshal(defs, resps) ==
  IF defs.err THEN [maps |-> EmptyMaps, text |-> << >>, outcome |-> Panicked]
  ELSE LET tds == defs.value
           st == IF Len(tds) = 0 THEN EmptyMaps
                 ELSE TypeDefinitionLoop(EmptyMaps, tds, resps, 1)
       IN  SwitchOf(st)

-----------------------------------------------------------------------------
(* The generated switch at run time *)

\* The value of a condition produced by getConditionOfResponseName for status code s.
EvalCondition(cond, s) ==
  IF cond = Bytes("true") THEN TRUE
  ELSE LET rest == SubSeq(cond, Len(Bytes("rsp.StatusCode")) + 1, Len(cond)) IN
       IF HasPrefix(rest, Bytes(" / 100 == "))
       THEN (s \div 100) = Atoi(SubSeq(rest, Len(Bytes(" / 100 == ")) + 1, Len(rest)))
       ELSE s = Atoi(SubSeq(rest, Len(Bytes(" == ")) + 1, Len(rest)))

ClauseTrue(clause, s, header) ==
  Contains(Bytes(header), Bytes(clause.contains)) /\ EvalCondition(clause.cond, s)

\* Index of the clause a Go switch runs: the first whose condition is true, 0 if none.
FirstTrue(clauses, s, header) ==
  IF \E i \in 1..Len(clauses) : ClauseTrue(clauses[i], s, header)
  THEN CHOOSE i \in 1..Len(clauses) :
         /\ ClauseTrue(clauses[i], s, header)
         /\ \A j \in 1..(i - 1) : ~ClauseTrue(clauses[j], s, header)
  ELSE 0

-----------------------------------------------------------------------------
(* The x-primary-response resolver *)

\* JSON values as json.Unmarshal leaves them in a map[string]interface{}.
JSONString(str) == <<"string", str>>
JSONNumber == <<"float64">>
JSONNull == <<"nil">>
JSONArray(elements) == <<"[]interface{}", elements>>

\* op.Spec.Extensions["x-primary-response"]: missing, or a json.RawMessage that
\* holds an object (its members in object) or something json.Unmarshal rejects.
AbsentDirective == [present |-> FALSE, valid |-> FALSE, object |-> << >>]
InvalidDirective == [present |-> TRUE, valid |-> FALSE, object |-> << >>]
ObjectDirective(members) == [present |-> TRUE, valid |-> TRUE, object |-> members]

\* MetadataLoop that skips the elements that are not strings.
RECURSIVE MetadataLoop_SkipNonStrings(_, _, _)
MetadataLoop_SkipNonStrings(props, i, acc) ==
  IF i > Len(props) THEN Returned(acc)
  ELSE IF props[i][1] # "string" THEN MetadataLoop_SkipNonStrings(props, i + 1, acc)
  ELSE MetadataLoop_SkipNonStrings(props, i + 1, Append(acc, props[i][2]))

RECURSIVE MetadataLoop(_, _, _)
\* The loop over props of getPrimaryResponseInfo: the strings appended, or a panic.
MetadataLoop(props, i, acc) ==
  IF i > Len(props) THEN Returned(acc)
  ELSE IF props[i][1] # "string" THEN Panicked
  ELSE MetadataLoop(props, i + 1, Append(acc, props[i][2]))

\* getPrimaryResponseInfo gets the x-primary-response extension data.
getPrimaryResponseInfo(ext) ==
  IF ~ext.present THEN Returned(Nil)
  ELSE IF ~ext.valid THEN Panicked
  ELSE LET m == ext.object IN
       IF "status-code" \notin DOMAIN m THEN Panicked
       ELSE IF m["status-code"][1] # "string" THEN Panicked
       ELSE IF "content-type" \notin DOMAIN m THEN Panicked
       ELSE IF m["content-type"][1] # "string" THEN Panicked
       ELSE LET info == [statusCode |-> m["status-code"][2],
                         contentType |-> m["content-type"][2],
                         metadataProperties |-> << >>]
            IN  IF "metadata-properties" \notin DOMAIN m THEN Returned(Ptr(info))
                ELSE IF m["metadata-properties"][1] # "[]interface{}" THEN Panicked
                ELSE LET props == MetadataLoop(m["metadata-properties"][2], 1, << >>)
                     IN  IF props = Panicked THEN Panicked
                         ELSE Returned(Ptr([info EXCEPT !.metadataProperties = Value(props)]))

\* getResponseTypeDefinitions: the definitions, or the panic on the callee's error.
getResponseTypeDefinitions(tds, props, err) ==
  LET td == GetResponseTypeDefinitions(tds, props, err)
  IN  IF td.err THEN Panicked ELSE Returned(td.value)

\* MatchLoop comparing the status code only.
MatchLoop_StatusOnly(tds, info, i) ==
  IF \E k \in 1..Len(tds) : tds[k].ResponseName = info.statusCode
  THEN Returned(Ptr(tds[CHOOSE k \in 1..Len(tds) :
                          /\ tds[k].ResponseName = info.statusCode
                          /\ \A j \in 1..(k - 1) : tds[j].ResponseName # info.statusCode]))
  ELSE Panicked

RECURSIVE MatchLoop(_, _, _)
\* The loop of getPrimaryResponseTypeDefinition: the first match, or the panic after it.
MatchLoop(tds, info, i) ==
  IF i > Len(tds) THEN Panicked
  ELSE IF tds[i].ResponseName = info.statusCode /\ tds[i].ContentTypeName = info.contentType
       THEN Returned(Ptr(tds[i]))
  ELSE MatchLoop(tds, info, i + 1)

\* getPrimaryResponseTypeDefinition without the check for a nil info: info.statusCode
\* is then a nil dereference.
getPrimaryResponseTypeDefinition_NoNilCheck(ext, tds, props, err) ==
  LET info == getPrimaryResponseInfo(ext)
      defs == getResponseTypeDefinitions(tds, props, err)
  IN  IF info = Panicked THEN Panicked
      ELSE IF Value(info) = Nil THEN Panicked
      ELSE IF defs = Panicked THEN Panicked
      ELSE MatchLoop(Value(defs), Deref(Value(info)), 1)

\* getPrimaryResponseTypeDefinition returns the primary ResponseTypeDefinition, or nil.
getPrimaryResponseTypeDefinition(ext, tds, props, err) ==
  LET info == getPrimaryResponseInfo(ext)
      defs == getResponseTypeDefinitions(tds, props, err)
  IN  IF info = Panicked THEN Panicked
      ELSE IF Value(info) = Nil THEN Returned(Nil)
      ELSE IF defs = Panicked THEN Panicked
      ELSE MatchLoop(Value(defs), Deref(Value(info)), 1)

stringSliceContains(haystack, needle) == \E i \in 1..Len(haystack) : haystack[i] = needle

RECURSIVE NonMetadataLoop(_, _, _, _)
\* The loop of getSingleNonMetadataProperty. ret is 0 for nil, else the index
\* prop had when its address was taken; -1 is the return nil inside the loop.
NonMetadataLoop(props, metadataProperties, i, ret) ==
  IF i > Len(props) THEN ret
  ELSE IF ~stringSliceContains(metadataProperties, props[i].JsonFieldName)
       THEN IF ret # 0 THEN -1
            ELSE NonMetadataLoop(props, metadataProperties, i + 1, i)
  ELSE NonMetadataLoop(props, metadataProperties, i + 1, ret)

\* getSingleNonMetadataProperty: nil, or the property ret points to. ret is
\* &prop, the range variable: a variable of its own in each iteration when the
\* build has per-iteration range variables, otherwise the one variable of the
\* loop, which holds the last element of Properties when the loop has ended.
getSingleNonMetadataProperty(td, info, perIteration) ==
  LET props == td.Schema.Properties
      ret == NonMetadataLoop(props, info.metadataProperties, 1, 0)
  IN  IF ret <= 0 THEN Nil
      ELSE IF perIteration THEN Ptr(props[ret])
      ELSE Ptr(props[Len(props)])

isFlatTypeDefinition(td) == Len(td.Schema.Properties) = 0

\* delete(osc.Properties, propName) for every property marked as metadata.
PurgeMetadata(props, metadataProperties) ==
  SelectSeq(props, LAMBDA prop : ~stringSliceContains(metadataProperties, prop.JsonFieldName))

\* asReducedTypeDefinition: ret is the outcome, the definition returned
\* (flattened or with the metadata purged) or the panic on the error of
\* GenerateGoSchema; osc is what td.Schema.OAPISchema points to afterwards.
\* osc := td.Schema.OAPISchema copies the pointer, so the deletions are made in
\* the declared schema itself, and they are made before GenerateGoSchema is
\* called: a panic leaves the declared schema purged. err is the error
\* GenerateGoSchema returns for the purged schema.
asReducedTypeDefinition(td, info, props, perIteration, err) ==
  LET prop == getSingleNonMetadataProperty(td, info, perIteration) IN
  IF prop # Nil
  THEN [ret |-> Returned(Ptr([TypeName |-> Deref(prop).JsonFieldName,
                              JsonName |-> Deref(prop).JsonFieldName,
                              Schema   |-> Deref(prop).Schema])),
        osc |-> props]
  ELSE LET purged == PurgeMetadata(props, info.metadataProperties) IN
       IF err THEN [ret |-> Panicked, osc |-> purged]
       ELSE [ret |-> Returned(Ptr([TypeName |-> td.TypeName,
                                   JsonName |-> td.JsonName,
                                   Schema   |-> GenerateGoSchema(purged)])),
             osc |-> purged]

isFlatTypeDefinitionAfterReduction(td, info, props, perIteration, err) ==
  LET r == asReducedTypeDefinition(td, info, props, perIteration, err)
  IN  [ret |-> IF r.ret = Panicked THEN Panicked
               ELSE Returned(isFlatTypeDefinition(Deref(Value(r.ret)))),
       osc |-> r.osc]

OperationId == "getTest"

UppercaseFirstCharacter(str) ==
  CASE str = "getTest" -> "GetTest"
    [] OTHER -> str

genResponseTypeName(operationID) == UppercaseFirstCharacter(operationID) \o responseTypeSuffix

\* prop.GoTypeDef()
GoTypeDef(prop) == prop.Schema.TypeDecl

\* genReturnTypeName substitutes the "flat" name for the response name if possible.
genReturnTypeName(ext, tds, props, perIteration, err) ==
  LET defaultName == "*" \o UppercaseFirstCharacter(genResponseTypeName(OperationId))
      td == getPrimaryResponseTypeDefinition(ext, tds, props, err)
  IN  IF td = Panicked THEN Panicked
      ELSE IF Value(td) = Nil THEN Returned(defaultName)
      ELSE LET info == getPrimaryResponseInfo(ext)
               prop == getSingleNonMetadataProperty(Deref(Value(td)), Deref(Value(info)),
                                                    perIteration)
           IN  IF prop = Nil THEN Returned(defaultName)
               ELSE Returned(GoTypeDef(Deref(prop)))


-----------------------------------------------------------------------------
(* Recording of calls and results *)

FunctionNames == {"genResponseUnmarshal", "getPrimaryResponseInfo",
                  "getPrimaryResponseTypeDefinition", "asReducedTypeDefinition",
                  "isFlatTypeDefinitionAfterReduction", "genReturnTypeName"}

NoCalls == [f \in FunctionNames |-> NotCalled]

Record(f, result) ==
  \E outcome \in {result} :
     /\ first' = IF first[f] = NotCalled THEN [first EXCEPT ![f] = outcome] ELSE first
     /\ last' = [last EXCEPT ![f] = outcome]
     /\ calls' = calls + 1

\* A run that generates the switch of one operation once, or a run of repeated calls.
CallBudget == IF pc \in {"once", "switch"} THEN 1 ELSE MaxCalls

-----------------------------------------------------------------------------
(* Operations the dispatch generator is given *)

ResponseNames == {"200", "2XX", "404", "default"}
ContentTypes == {"application/json", "text/x-json", "application/xml", "text/yaml",
                 "application/octet-stream"}
TypeNames == {"T", "interface{}"}

\* Content-types and type names of the operations whose switch is only generated,
\* and of those whose switch is also run.
DispatchContentTypes == ContentTypes \ {"text/yaml"}
RuntimeContentTypes == ContentTypes

\* One definition per (response, content-type) pair; a response without content
\* ("" as ContentTypeName) has no other definition.
WellFormedTypeDefinitions(tds) ==
  \A i, j \in 1..Len(tds) :
     (i # j /\ tds[i].ResponseName = tds[j].ResponseName) =>
        /\ tds[i].ContentTypeName # tds[j].ContentTypeName
        /\ tds[i].ContentTypeName # ""

TypeDefinitionLists(names, contentTypes, typeNames, maxLen) ==
  {tds \in UNION {[1..n -> [ResponseName : names, ContentTypeName : contentTypes,
                            TypeName : typeNames]] : n \in 0..maxLen} :
     WellFormedTypeDefinitions(tds)}

Undeclared == [declared |-> FALSE, hasValue |-> FALSE, Content |-> {}]
NilValue == [declared |-> TRUE, hasValue |-> FALSE, Content |-> {}]
WithContent(content) == [declared |-> TRUE, hasValue |-> TRUE, Content |-> content]

ContentOf(tds, name) ==
  {tds[i].ContentTypeName : i \in {j \in 1..Len(tds) : tds[j].ResponseName = name}} \ {""}

NoContentNames(tds) ==
  {tds[i].ResponseName : i \in {j \in 1..Len(tds) : tds[j].ContentTypeName = ""}}

\* op.Spec.Responses of an operation with these definitions: a response with
\* content declares the content-types of its definitions; one without content
\* is declared empty, is an unresolved reference (nil Value), or is missing.
ResponsesOf(tds) ==
  {[n \in ResponseNames |->
      IF ContentOf(tds, n) # {} THEN WithContent(ContentOf(tds, n))
      ELSE IF n \in NoContentNames(tds) THEN m[n]
      ELSE Undeclared] :
   m \in [NoContentNames(tds) -> {Undeclared, NilValue, WithContent({})}]}

\* Responses the generated switch is run on.
StatusCodes == {200, 201, 404}
Headers == {"application/json", "application/xml", "text/yaml", "application/octet-stream"}

\* op.Spec.Responses of an operation whose definitions cannot be computed: the
\* responses of an operation with one declared response.
ResponsesWithoutDefinitions(names, contentTypes) ==
  UNION {ResponsesOf(tds) : tds \in TypeDefinitionLists(names, contentTypes, {"T"}, 1)}

NotRun == [status |-> 0, header |-> "", index |-> 0]

InitDispatch ==
  /\ typeDefinitionsErr \in BOOLEAN
  /\ generateGoSchemaErr = FALSE
  /\ typeDefinitions \in
       IF typeDefinitionsErr THEN {<< >>}
       ELSE TypeDefinitionLists(ResponseNames, DispatchContentTypes \cup {""}, TypeNames,
                                MaxTypeDefs)
  /\ responses \in
       IF typeDefinitionsErr THEN ResponsesWithoutDefinitions(ResponseNames, DispatchContentTypes)
       ELSE ResponsesOf(typeDefinitions)
  /\ directive = AbsentDirective
  /\ oapiProperties = << >>
  /\ declaredProperties = << >>
  /\ loopVarPerIteration = TRUE
  /\ pc = "once"
  /\ handledCaseClauses = << >>
  /\ unhandledCaseClauses = << >>
  /\ stores = << >>
  /\ emitted = << >>
  /\ selected = NotRun
  /\ first = NoCalls
  /\ last = NoCalls
  /\ calls = 0

-----------------------------------------------------------------------------
(* Actions *)

GenResponseUnmarshal ==
  /\ calls < CallBudget
  /\ \E r \in {genResponseUnmarshal(
                    GetResponseTypeDefinitions(typeDefinitions, oapiProperties,
                                               typeDefinitionsErr), responses)} :
         /\ handledCaseClauses' = r.maps.handled
         /\ unhandledCaseClauses' = r.maps.unhandled
         /\ stores' = r.maps.stores
         /\ emitted' = r.text
         /\ Record("genResponseUnmarshal", r.outcome)
  /\ UNCHANGED << typeDefinitions, typeDefinitionsErr, generateGoSchemaErr, responses, directive, oapiProperties, declaredProperties,
                  loopVarPerIteration, pc, selected >>

\* The generated switch runs on a response with status code s and Content-Type header.
RuntimeDispatch ==
  /\ pc = "switch"
  /\ emitted # << >>
  /\ selected = NotRun
  /\ \E s \in StatusCodes, header \in Headers :
        selected' = [status |-> s, header |-> header, index |-> FirstTrue(emitted, s, header)]
  /\ UNCHANGED << typeDefinitions, typeDefinitionsErr, generateGoSchemaErr, responses,
                  directive, oapiProperties, declaredProperties,
                  loopVarPerIteration, pc, handledCaseClauses, unhandledCaseClauses, stores,
                  emitted, first, last, calls >>

\* Generation of the switch of one operation.
NextDispatch == GenResponseUnmarshal

SpecDispatch == InitDispatch /\ [][NextDispatch]_vars

\* Generation of the switch of one operation with typed responses, and a run of it.
InitRuntime ==
  /\ typeDefinitionsErr \in BOOLEAN
  /\ generateGoSchemaErr = FALSE
  /\ typeDefinitions \in
       IF typeDefinitionsErr THEN {<< >>}
       ELSE TypeDefinitionLists(ResponseNames, RuntimeContentTypes, {"T"}, MaxTypeDefs)
  /\ responses \in
       IF typeDefinitionsErr THEN ResponsesWithoutDefinitions(ResponseNames, RuntimeContentTypes)
       ELSE ResponsesOf(typeDefinitions)
  /\ directive = AbsentDirective
  /\ oapiProperties = << >>
  /\ declaredProperties = << >>
  /\ loopVarPerIteration = TRUE
  /\ pc = "switch"
  /\ handledCaseClauses = << >>
  /\ unhandledCaseClauses = << >>
  /\ stores = << >>
  /\ emitted = << >>
  /\ selected = NotRun
  /\ first = NoCalls
  /\ last = NoCalls
  /\ calls = 0

NextRuntime == GenResponseUnmarshal \/ RuntimeDispatch

SpecRuntime == InitRuntime /\ [][NextRuntime]_vars

-----------------------------------------------------------------------------
(* Vocabulary of the claims about the dispatch sequence *)

\* genResponseUnmarshal has run and returned its text.
Generated == last["genResponseUnmarshal"] \notin {NotCalled, Panicked}

\* The response name a clause tests, read from its condition.
IsDefaultClause(clause) == clause.cond = Bytes("true")
IsClassClause(clause) == Contains(clause.cond, Bytes(" / 100 == "))
IsExactClause(clause) == ~IsDefaultClause(clause) /\ ~IsClassClause(clause)
IsHandledClause(clause) == clause.action.kind = "unmarshal"

\* Tiers of section 4.2: 1 for a handled exact status code, 2 for a handled class
\* wildcard, 3 for default, unsupported content-type and no content.
Tier(clause) ==
  IF ~IsHandledClause(clause) \/ IsDefaultClause(clause) THEN 3
  ELSE IF IsClassClause(clause) THEN 2
  ELSE 1

CodecOf(contentTypeName) ==
  IF StringInArray(contentTypeName, contentTypesJSON) THEN "json"
  ELSE IF StringInArray(contentTypeName, contentTypesYAML) THEN "yaml"
  ELSE IF StringInArray(contentTypeName, contentTypesXML) THEN "xml"
  ELSE ""

\* C1: in the emitted sequence every clause of a more specific tier (exact, then
\* class wildcard, then default / unsupported / no content) comes before every
\* clause of a less specific tier, whatever the declaration order.
C1_ExactBeforeClassBeforeDefault ==
  Generated =>
    \A i, j \in 1..Len(emitted) : i < j => Tier(emitted[i]) <= Tier(emitted[j])

\* C8: no two stores of distinct (response name, content-type) cases go to the
\* same key of the same map, so every synthesized case is emitted.
C8_SortKeysUnique ==
  Generated =>
    /\ \A i, j \in 1..Len(stores) :
          ( /\ stores[i].handled = stores[j].handled
            /\ <<stores[i].ResponseName, stores[i].ContentTypeName>>
                 # <<stores[j].ResponseName, stores[j].ContentTypeName>> )
          => stores[i].key # stores[j].key
    /\ \A i \in 1..Len(stores) : \E k \in 1..Len(emitted) : emitted[k] = stores[i].clause

IsUnsupported(contentTypeName) == contentTypeName # "" /\ CodecOf(contentTypeName) = ""

\* The emitted sequence holds, after every handled clause, the unsupported stub
\* for response name n.
HasUnsupportedStub(n) ==
  \E k \in 1..Len(emitted) :
     /\ emitted[k].contains = ""
     /\ emitted[k].action.kind = "unsupported"
     /\ IsUnsupported(emitted[k].action.contentType)
     /\ emitted[k].action.contentType \in responses[n].Content
     /\ \A s \in StatusCodes :
           EvalCondition(emitted[k].cond, s) =
             ( \/ n = "default"
               \/ n = "2XX" /\ s \div 100 = 2
               \/ n = "200" /\ s = 200
               \/ n = "404" /\ s = 404 )
     /\ \A j \in 1..Len(emitted) : IsHandledClause(emitted[j]) => j < k

\* C9 as claimed: every declared response with an unsupported content-type gets
\* the unsupported stub, whatever the type names of its definitions.
C9_UnsupportedAlwaysEmitted ==
  Generated =>
    \A n \in ResponseNames :
       (responses[n].hasValue /\ \E ct \in responses[n].Content : IsUnsupported(ct))
       => HasUnsupportedStub(n)

\* C9 amended: the stub is emitted for every response with an unsupported
\* content-type that has a type definition whose type name is not interface{};
\* the interface{} skip comes first and suppresses the stub too.
C9_UnsupportedEmittedForTyped ==
  Generated =>
    \A n \in ResponseNames :
       (responses[n].hasValue /\ \E ct \in responses[n].Content : IsUnsupported(ct))
       => ( HasUnsupportedStub(n) <=>
              \E i \in 1..Len(typeDefinitions) :
                 /\ typeDefinitions[i].ResponseName = n
                 /\ typeDefinitions[i].TypeName # "interface{}" )

C9_Witness ==
  /\ Generated
  /\ \E i, j \in 1..Len(typeDefinitions) :
        /\ typeDefinitions[i].ResponseName = "200"
        /\ typeDefinitions[i].ContentTypeName = "application/octet-stream"
        /\ typeDefinitions[i].TypeName = "interface{}"
        /\ typeDefinitions[j].ResponseName = "default"
        /\ typeDefinitions[j].ContentTypeName = "application/octet-stream"
        /\ typeDefinitions[j].TypeName = "T"
  /\ HasUnsupportedStub("default")
  /\ ~HasUnsupportedStub("200")

-----------------------------------------------------------------------------
(* Vocabulary of the claim about the switch at run time *)

\* The codec tokens the Content-Type header contains.
TokensIn(header) == {c \in {"json", "yaml", "xml"} : Contains(Bytes(header), Bytes(c))}

\* The response names with a type definition that yields a handled clause of codec c.
DeclaredUnder(c) ==
  {typeDefinitions[i].ResponseName :
     i \in {j \in 1..Len(typeDefinitions) :
              /\ typeDefinitions[j].TypeName # "interface{}"
              /\ CodecOf(typeDefinitions[j].ContentTypeName) = c
              /\ typeDefinitions[j].ContentTypeName
                   \in responses[typeDefinitions[j].ResponseName].Content}}

ExactName(s) == CASE s = 200 -> "200" [] s = 201 -> "201" [] s = 404 -> "404"
ClassName(s) == CASE s \div 100 = 2 -> "2XX" [] s \div 100 = 4 -> "4XX"

\* The most specific name of D that matches status code s, "" if none does.
MostSpecific(D, s) ==
  IF ExactName(s) \in D THEN ExactName(s)
  ELSE IF ClassName(s) \in D THEN ClassName(s)
  ELSE IF "default" \in D THEN "default"
  ELSE ""

\* The response names of the definitions whose store produced this clause.
NamesOfClause(clause) ==
  {stores[i].ResponseName : i \in {j \in 1..Len(stores) : stores[j].clause = clause}}

\* C10: on a response whose Content-Type holds exactly one codec token, the
\* clause the switch runs is the handled clause of that codec for the most
\* specific declared response name matching the status code (the exact code,
\* else its class, else default); if no declared name matches, no handled
\* clause runs.
C10_MostSpecificHandledClauseRuns ==
  (selected # NotRun /\ Cardinality(TokensIn(selected.header)) = 1) =>
    LET c == CHOOSE t \in TokensIn(selected.header) : TRUE
        n == MostSpecific(DeclaredUnder(c), selected.status)
    IN  IF n = ""
        THEN selected.index = 0 \/ ~IsHandledClause(emitted[selected.index])
        ELSE /\ selected.index # 0
             /\ IsHandledClause(emitted[selected.index])
             /\ emitted[selected.index].action.codec = c
             /\ NamesOfClause(emitted[selected.index]) = {n}

\* A 200 JSON response of an operation that declares default, 2XX and 200 under JSON.
C10_Witness ==
  /\ selected.status = 200
  /\ selected.header = "application/json"
  /\ DeclaredUnder("json") = {"200", "2XX", "default"}
  /\ selected.index # 0
  /\ NamesOfClause(emitted[selected.index]) = {"200"}

-----------------------------------------------------------------------------
(* Operations the primary-response resolver is given *)

FlatSchema(typeDecl) ==
  [TypeDecl |-> typeDecl, Properties |-> << >>, OAPISchema |-> [Properties |-> {}]]

\* The properties a response schema may declare: a boolean, an array and an object.
PropertyUniverse ==
  { [JsonFieldName |-> "ok", Schema |-> FlatSchema("bool")],
    [JsonFieldName |-> "tests", Schema |-> FlatSchema("[]Test")],
    [JsonFieldName |-> "data",
     Schema |-> GenerateGoSchema(<< [JsonFieldName |-> "id", Schema |-> FlatSchema("int")] >>)] }

\* Property lists without a repeated name, in the order of their names.
DeclaredSchemas ==
  {props \in UNION {[1..n -> PropertyUniverse] : n \in 0..MaxProps} :
     \A i, j \in 1..Len(props) :
        i < j => StringLess(Bytes(props[i].JsonFieldName), Bytes(props[j].JsonFieldName))}

MetadataNames == {"ok", "data"}
PrimaryStatusCodes == {"200", "404"}
PrimaryResponseNames == {"200", "default"}
PrimaryContentTypes == {"application/json", "application/xml"}

JSONArrays(elements) ==
  {JSONArray(a) : a \in UNION {[1..n -> elements] : n \in 0..MaxMeta}}

\* The objects with these members; a key whose value set is empty is left out.
Objects(statusCodes, contentTypes, metadata) ==
  UNION {
    {[k \in K |-> IF k = "status-code" THEN a
                  ELSE IF k = "content-type" THEN b ELSE c] :
       a \in statusCodes, b \in contentTypes, c \in metadata} :
    K \in SUBSET {"status-code", "content-type", "metadata-properties"}}

\* Well-formed directives: both keys hold strings, metadata-properties is
\* missing or an array of strings.
WellFormedDirectives ==
  {ObjectDirective(m) :
     m \in {o \in Objects({JSONString(c) : c \in PrimaryStatusCodes},
                          {JSONString("application/xml")},
                          JSONArrays({JSONString(n) : n \in MetadataNames})) :
              {"status-code", "content-type"} \subseteq DOMAIN o}}

\* Every shape of directive: any key missing, any value of a wrong type.
AllDirectives ==
  {AbsentDirective, InvalidDirective} \cup
  {ObjectDirective(m) :
     m \in Objects({JSONString("200"), JSONNumber, JSONNull},
                   {JSONString("application/xml"), JSONNumber, JSONNull},
                   JSONArrays({JSONString("ok"), JSONString("data"), JSONNumber})
                     \cup {JSONString("ok"), JSONNull})}

InitCalls(directives, maxTypeDefs, schemas, schemaErrs) ==
  /\ typeDefinitionsErr \in BOOLEAN
  /\ generateGoSchemaErr \in schemaErrs
  /\ typeDefinitions \in
       IF typeDefinitionsErr THEN {<< >>}
       ELSE TypeDefinitionLists(PrimaryResponseNames, PrimaryContentTypes, {"T"}, maxTypeDefs)
  /\ responses \in
       IF typeDefinitionsErr
       THEN ResponsesWithoutDefinitions(PrimaryResponseNames, PrimaryContentTypes)
       ELSE ResponsesOf(typeDefinitions)
  /\ directive \in directives
  /\ oapiProperties \in schemas
  /\ declaredProperties = oapiProperties
  /\ loopVarPerIteration \in BOOLEAN
  /\ pc = "calls"
  /\ handledCaseClauses = << >>
  /\ unhandledCaseClauses = << >>
  /\ stores = << >>
  /\ emitted = << >>
  /\ selected = NotRun
  /\ first = NoCalls
  /\ last = NoCalls
  /\ calls = 0

UnchangedByResolver ==
  UNCHANGED << typeDefinitions, typeDefinitionsErr, generateGoSchemaErr, responses,
               directive, declaredProperties, loopVarPerIteration,
               pc, handledCaseClauses, unhandledCaseClauses, stores, emitted, selected >>

GetPrimaryResponseInfo ==
  /\ calls < CallBudget
  /\ Record("getPrimaryResponseInfo", getPrimaryResponseInfo(directive))
  /\ UNCHANGED oapiProperties
  /\ UnchangedByResolver

GetPrimaryResponseTypeDefinition ==
  /\ calls < CallBudget
  /\ Record("getPrimaryResponseTypeDefinition",
            getPrimaryResponseTypeDefinition(directive, typeDefinitions, oapiProperties,
                                             typeDefinitionsErr))
  /\ UNCHANGED oapiProperties
  /\ UnchangedByResolver

\* The arguments the templates pass: the primary definition and the parsed directive.
PrimaryTd == getPrimaryResponseTypeDefinition(directive, typeDefinitions, oapiProperties,
                                             typeDefinitionsErr)
PrimaryInfo == getPrimaryResponseInfo(directive)
HasPrimary == PrimaryTd # Panicked /\ Value(PrimaryTd) # Nil

AsReducedTypeDefinition ==
  /\ calls < CallBudget
  /\ HasPrimary
  /\ \E r \in {asReducedTypeDefinition(Deref(Value(PrimaryTd)), Deref(Value(PrimaryInfo)),
                                         oapiProperties, loopVarPerIteration,
                                         generateGoSchemaErr)} :
         /\ oapiProperties' = r.osc
         /\ Record("asReducedTypeDefinition", r.ret)
  /\ UnchangedByResolver

IsFlatTypeDefinitionAfterReduction ==
  /\ calls < CallBudget
  /\ HasPrimary
  /\ \E r \in {isFlatTypeDefinitionAfterReduction(Deref(Value(PrimaryTd)),
                     Deref(Value(PrimaryInfo)), oapiProperties, loopVarPerIteration,
                     generateGoSchemaErr)} :
         /\ oapiProperties' = r.osc
         /\ Record("isFlatTypeDefinitionAfterReduction", r.ret)
  /\ UnchangedByResolver

GenReturnTypeName ==
  /\ calls < CallBudget
  /\ Record("genReturnTypeName",
            genReturnTypeName(directive, typeDefinitions, oapiProperties,
                              loopVarPerIteration, typeDefinitionsErr))
  /\ UNCHANGED oapiProperties
  /\ UnchangedByResolver

\* Template calls on one operation with a well-formed or absent directive.
InitPrimary ==
  InitCalls(WellFormedDirectives \cup {AbsentDirective}, MaxPrimaryTypeDefs, DeclaredSchemas,
            BOOLEAN)

NextPrimary ==
  \/ GenResponseUnmarshal
  \/ GetPrimaryResponseInfo
  \/ GetPrimaryResponseTypeDefinition
  \/ AsReducedTypeDefinition
  \/ IsFlatTypeDefinitionAfterReduction
  \/ GenReturnTypeName

SpecPrimary == InitPrimary /\ [][NextPrimary]_vars

\* Parsing of a directive of any shape.
InitDirective ==
  InitCalls(AllDirectives, 1, {<< >>}, {FALSE})

NextDirective ==
  \/ GetPrimaryResponseInfo
  \/ GetPrimaryResponseTypeDefinition
  \/ GenReturnTypeName

SpecDirective == InitDirective /\ [][NextDirective]_vars

-----------------------------------------------------------------------------
(* Claims about the primary-response resolver *)

JsonFieldNames(props) == {props[i].JsonFieldName : i \in 1..Len(props)}

\* C2: asReducedTypeDefinition and isFlatTypeDefinitionAfterReduction leave the
\* declared schema as it was declared: its properties are the same after any calls.
C2_DeclaredSchemaNeverMutated ==
  JsonFieldNames(oapiProperties) = JsonFieldNames(declaredProperties)

\* C3: the latest run of every function returns what its first run returned.
C3_SecondRunSameAsFirst ==
  \A f \in FunctionNames : last[f] = first[f]

\* The parsed directive of an operation with a well-formed directive.
TheInfo == Deref(Value(getPrimaryResponseInfo(directive)))

\* The declared properties whose name is not in the directive's metadata.
NonMetadata ==
  SelectSeq(oapiProperties,
            LAMBDA p : \A i \in 1..Len(TheInfo.metadataProperties) :
                          TheInfo.metadataProperties[i] # p.JsonFieldName)

DefaultReturnTypeName == "*GetTestResponse"

\* C4: with exactly one property outside the metadata, the return type and the
\* reduced definition are that property's; otherwise the return type is the
\* default enveloped one and the definition keeps the response type's name.
C4_FlattenedToTheSingleProperty ==
  HasPrimary =>
    /\ last["genReturnTypeName"] # NotCalled =>
         last["genReturnTypeName"] =
           Returned(IF Len(NonMetadata) = 1 THEN NonMetadata[1].Schema.TypeDecl
                    ELSE DefaultReturnTypeName)
    /\ last["asReducedTypeDefinition"] # NotCalled =>
         IF Len(NonMetadata) = 1
         THEN last["asReducedTypeDefinition"] =
                Returned(Ptr([TypeName |-> NonMetadata[1].JsonFieldName,
                              JsonName |-> NonMetadata[1].JsonFieldName,
                              Schema   |-> NonMetadata[1].Schema]))
         ELSE last["asReducedTypeDefinition"] # Panicked =>
                Deref(Value(last["asReducedTypeDefinition"])).TypeName = "T"

\* The definitions of the operation that match the directive's status code and
\* content type; none when the definitions cannot be computed.
Matching ==
  {i \in 1..(IF typeDefinitionsErr THEN 0 ELSE Len(typeDefinitions)) :
     /\ typeDefinitions[i].ResponseName = TheInfo.statusCode
     /\ typeDefinitions[i].ContentTypeName = TheInfo.contentType}

\* C5: every call of getPrimaryResponseTypeDefinition on an operation with a
\* well-formed directive panics when no definition matches both the status code
\* and the content type, and otherwise returns the first that does, with every
\* property the operation's schema holds at the call, metadata included.
C5_MatchingDefinitionOrPanic ==
  [][ (GetPrimaryResponseTypeDefinition /\ directive.present) =>
        LET out == last'["getPrimaryResponseTypeDefinition"] IN
        IF Matching = {} THEN out = Panicked
        ELSE /\ out # Panicked
             /\ Value(out) # Nil
             /\ Deref(Value(out)).ResponseName = TheInfo.statusCode
             /\ Deref(Value(out)).ContentTypeName = TheInfo.contentType
             /\ Deref(Value(out)).TypeName
                  = typeDefinitions[CHOOSE i \in Matching : \A j \in Matching : i <= j].TypeName
             /\ Deref(Value(out)).Schema.Properties = oapiProperties ]_vars

\* A directive naming 200 / application/xml with metadata ok resolved to the
\* definition with ok among its properties; and one naming 404 ended in a panic.
C5_Witness ==
  /\ directive.present
  /\ last["getPrimaryResponseTypeDefinition"] # NotCalled
  /\ \/ /\ TheInfo.statusCode = "404"
        /\ Len(typeDefinitions) = 2
        /\ last["getPrimaryResponseTypeDefinition"] = Panicked
     \/ /\ TheInfo.metadataProperties = <<"ok">>
        /\ last["getPrimaryResponseTypeDefinition"] # Panicked
        /\ "ok" \in JsonFieldNames(
                      Deref(Value(last["getPrimaryResponseTypeDefinition"])).Schema.Properties)
        /\ Len(typeDefinitions) = 2
        /\ typeDefinitions[1].ContentTypeName = "application/json"

\* C6: without a directive getPrimaryResponseInfo and
\* getPrimaryResponseTypeDefinition return nil and genReturnTypeName returns the
\* default enveloped name; none of them panics.
C6_AbsentDirectiveKeepsDefault ==
  ~directive.present =>
    /\ last["getPrimaryResponseInfo"] \in {NotCalled, Returned(Nil)}
    /\ last["getPrimaryResponseTypeDefinition"] \in {NotCalled, Returned(Nil)}
    /\ last["genReturnTypeName"] \in {NotCalled, Returned(DefaultReturnTypeName)}

C6_Witness ==
  /\ ~directive.present
  /\ Len(typeDefinitions) = 2
  /\ last["getPrimaryResponseInfo"] = Returned(Nil)
  /\ last["getPrimaryResponseTypeDefinition"] = Returned(Nil)
  /\ last["genReturnTypeName"] = Returned(DefaultReturnTypeName)

\* The members of a directive that parse: both keys strings, metadata-properties
\* missing or an array of strings.
IsJSONString(v) == v[1] = "string"

WellFormed(ext) ==
  /\ ext.valid
  /\ "status-code" \in DOMAIN ext.object /\ IsJSONString(ext.object["status-code"])
  /\ "content-type" \in DOMAIN ext.object /\ IsJSONString(ext.object["content-type"])
  /\ "metadata-properties" \in DOMAIN ext.object =>
        /\ ext.object["metadata-properties"][1] = "[]interface{}"
        /\ \A i \in 1..Len(ext.object["metadata-properties"][2]) :
              IsJSONString(ext.object["metadata-properties"][2][i])

\* C7: a directive that is present is parsed into exactly its values, or the
\* call panics; a malformed one always panics.
C7_ParsedExactlyOrPanic ==
  (directive.present /\ last["getPrimaryResponseInfo"] # NotCalled) =>
    IF WellFormed(directive)
    THEN LET m == directive.object
             info == Deref(Value(last["getPrimaryResponseInfo"]))
         IN  /\ last["getPrimaryResponseInfo"] # Panicked
             /\ Value(last["getPrimaryResponseInfo"]) # Nil
             /\ info.statusCode = m["status-code"][2]
             /\ info.contentType = m["content-type"][2]
             /\ IF "metadata-properties" \in DOMAIN m
                THEN /\ Len(info.metadataProperties) = Len(m["metadata-properties"][2])
                     /\ \A i \in 1..Len(info.metadataProperties) :
                           info.metadataProperties[i] = m["metadata-properties"][2][i][2]
                ELSE info.metadataProperties = << >>
    ELSE last["getPrimaryResponseInfo"] = Panicked

\* A directive whose metadata-properties holds a number has made the call panic.
C7_Witness ==
  /\ directive.present /\ directive.valid
  /\ "status-code" \in DOMAIN directive.object /\ IsJSONString(directive.object["status-code"])
  /\ "content-type" \in DOMAIN directive.object /\ IsJSONString(directive.object["content-type"])
  /\ "metadata-properties" \in DOMAIN directive.object
  /\ directive.object["metadata-properties"] = JSONArray(<<JSONNumber>>)
  /\ last["getPrimaryResponseInfo"] = Panicked

=============================================================================
